---------------------------- MODULE Spec2Model ----------------------------
(***************************************************************************)
(* simplemqhttp: a net.Listener / net.Conn / http.RoundTripper adapter     *)
(* over the SimpleMQ lease-based queue.                                    *)
(*                                                                         *)
(* The model covers the queue service as the repository implements it      *)
(* (stub.Server), the queue client (simplemq.Client), the acceptor         *)
(* (Listener) and the message stream (Conn) with its renewal goroutine.    *)
(*                                                                         *)
(* Time is a discrete clock.  One time unit is 3 seconds, so the lease of  *)
(* 30000 ms the stub grants is 10 units, and a Retry-After of 6 s / 36 s   *)
(* is 2 / 12 units.  Everything the code does between two blocking points  *)
(* (an HTTP call, the 200 ms sleeps) takes less than one unit: the clock   *)
(* advances only when no call is in progress and no renewal timer is due.  *)
(***************************************************************************)
EXTENDS Integers, Sequences, FiniteSets, TLC

VARIABLES
    now,               \* the wall clock, time.Now()
    messages,          \* stub.Server.messages[queue]: id -> message
    acceptedMessages,  \* Listener.acceptedMessages
    baseCtx,           \* Listener.baseCtx: "nil", "active" or "canceled"
    baseCancel,        \* Listener.baseCancel is non-nil
    respHandler,       \* Listener.ResponseHandler is configured
    serializer,        \* Listener.Serializer: "BodyOnly" (the default) or
                       \* "Custom"
    apc,               \* each caller of Listener.Accept: "idle", "running"
                       \* (in Accept, outside l.mu) or "locked" (in l.accept)
    acceptRet,         \* what the last Accept call of each caller returned
    closeSeen,         \* Listener.Close was called while the caller's call
                       \* waited for a message (the buffer was empty)
    lClosed,           \* Listener.Close has been called and has returned
    polled,            \* the ids the polls returned, in the order returned
    discards,          \* the entries of polled that Accept discarded
    serveLimit,        \* streams the server loop accepts before it stops
    nconns,            \* number of Conn values constructed so far
    conns,             \* the Conn values, by order of construction
    rt,                \* Transport: what the last RoundTrip did and returned
    codec              \* a body on its way through BodyOnlySerializer

vars == <<now, messages, acceptedMessages, baseCtx, baseCancel, respHandler,
          serializer, apc, acceptRet, closeSeen, lClosed, polled, discards,
          serveLimit, nconns, conns, rt, codec>>

---------------------------------------------------------------------------
(* Bounds of the model *)

MaxTime == 12       \* the clock stops here
MaxBuf == 4         \* tokens the response buffer holds

(* Program constants (in time units of 3 s) *)

LeaseLen == 10      \* stub: msg.VisibilityTimeoutAt = now + 30000
BufioSize == 3      \* bufio.NewReader: one fill of the default 4096-byte buffer

MsgIds == {1, 2}
ConnIds == {1, 2}

(* The goroutines that call Listener.Accept; the first is the server loop *)
Callers == {1, 2}
Server == {1}

(* Bytes are scaled to four bits.  Req is a message payload that is no     *)
(* base64 text, as the JSON documents of the tests are; Bad is the payload *)
(* a custom serializer refuses (the empty one, for the CustomSerializer of *)
(* the tests).                                                             *)
Bytes == 0..15
Req == <<1>>
Bad == <<>>
Contents == {Req, Bad}

(* The size of the buffer the server passes to Conn.Read; at this size the *)
(* pre-rendered request of the payload Req is read in one call.            *)
ReqLen == 2

(* Retry-After values a handler sends, in time units; -1 is a value that   *)
(* strconv.Atoi refuses.                                                    *)
RetryAfters == {2, 12}

---------------------------------------------------------------------------
(* Response bytes.  The response buffer is a sequence of tokens, one per   *)
(* line of an HTTP/1.1 response head, or one per chunk of body.            *)

Status(code) == <<"status", code>>
RetryAfterHdr(v) == <<"retry-after", v>>
Eoh == <<"eoh", 0>>
Body == <<"body", 0>>

(* What a handler passes to Write. *)
Payloads ==
    { <<>>,
      <<Status(200), Eoh>>,
      <<Status(503), Eoh>>,
      <<Body>> }
    \cup { <<Status(503), RetryAfterHdr(v), Eoh>> : v \in RetryAfters \cup {-1} }

Min(a, b) == IF a < b THEN a ELSE b

(* A timer set to half of what is left of the lease *)
TimerDelayHalf(remaining) ==
    IF remaining <= 0 THEN 0 ELSE remaining \div 2

(* time.Duration(float64(time.Until(deadline)) * 0.9), observed on the     *)
(* discrete clock: the first clock value at which a timer of that length   *)
(* has fired.  A deadline that is not in the future gives a timer that     *)
(* fires at once.                                                          *)
TimerDelay(remaining) ==
    IF remaining <= 0 THEN 0 ELSE (9 * remaining + 9) \div 10

(* All the orders in which the elements of S can be listed. *)
RECURSIVE Orders(_)
Orders(S) ==
    IF S = {} THEN { <<>> }
    ELSE UNION { { <<x>> \o rest : rest \in Orders(S \ {x}) } : x \in S }

---------------------------------------------------------------------------
(* http.ReadResponse(bufio.NewReader(&c.respBuffer), c.req)                *)

(* Index of the token that ends the header block starting at i: the blank  *)
(* line, a line that is no header, or Len(buf) + 1 at end of input.        *)
RECURSIVE HeadEnd(_, _)
HeadEnd(buf, i) ==
    IF i > Len(buf) THEN i
    ELSE IF buf[i][1] = "retry-after" THEN HeadEnd(buf, i + 1)
    ELSE i

(* resp.Header.Get("Retry-After"): the first value, or "" (here -2) *)
RECURSIVE HeaderGet(_, _, _)
HeaderGet(buf, i, end) ==
    IF i >= end THEN -2
    ELSE IF buf[i][1] = "retry-after" THEN buf[i][2]
    ELSE HeaderGet(buf, i + 1, end)

(* The bufio.Reader takes the bytes from the bytes.Buffer one fill at a    *)
(* time: what it has read through token `used` is gone from the buffer.    *)
Drained(buf, used) ==
    LET fills == (used + BufioSize - 1) \div BufioSize
        taken == Min(Len(buf), fills * BufioSize)
    IN  SubSeq(buf, taken + 1, Len(buf))

(* A parser that takes whatever it is given for a 200 response *)
ReadResponseLenient(buf) ==
    [ok |-> TRUE, status |-> 200, retryAfter |-> -2, rest |-> <<>>]

ReadResponse(buf) ==
    IF Len(buf) = 0
    THEN [ok |-> FALSE, status |-> 0, retryAfter |-> -2, rest |-> buf]
    ELSE IF buf[1][1] # "status"
    THEN [ok |-> FALSE, status |-> 0, retryAfter |-> -2, rest |-> Drained(buf, 1)]
    ELSE LET end == HeadEnd(buf, 2) IN
         IF end > Len(buf) \/ buf[end] # Eoh
         THEN [ok |-> FALSE, status |-> 0, retryAfter |-> -2,
               rest |-> Drained(buf, Min(end, Len(buf)))]
         ELSE [ok |-> TRUE, status |-> buf[1][2],
               retryAfter |-> HeaderGet(buf, 2, end),
               rest |-> Drained(buf, end)]

---------------------------------------------------------------------------
(* BodyOnlySerializer and the encodings under it.  base64.StdEncoding is   *)
(* scaled with the bytes: a digit holds three bits, so that three bytes    *)
(* make four digits and a shorter last group is padded, as in base64.      *)

(* The digits of the alphabet are the bytes FirstDigit .. FirstDigit + 7,  *)
(* and Pad is the padding character.                                       *)
FirstDigit == 4
Pad == 12

EncodeDigit(d) == FirstDigit + d
IsDigit(b) == b >= FirstDigit /\ b < FirstDigit + 8
DecodeDigit(b) == b - FirstDigit

(* base64.StdEncoding.EncodeToString *)
RECURSIVE EncodeToString(_)
EncodeToString(bs) ==
    IF Len(bs) = 0 THEN <<>>
    ELSE IF Len(bs) = 1
    THEN <<EncodeDigit(bs[1] \div 2), EncodeDigit((bs[1] % 2) * 4), Pad, Pad>>
    ELSE IF Len(bs) = 2
    THEN LET v == bs[1] * 16 + bs[2] IN
         <<EncodeDigit(v \div 32), EncodeDigit((v \div 4) % 8),
           EncodeDigit((v % 4) * 2), Pad>>
    ELSE LET v == bs[1] * 256 + bs[2] * 16 + bs[3] IN
         <<EncodeDigit(v \div 512), EncodeDigit((v \div 64) % 8),
           EncodeDigit((v \div 8) % 8), EncodeDigit(v % 8)>>
         \o EncodeToString(SubSeq(bs, 4, Len(bs)))

(* A decoder that takes the first byte of a group from the first digit     *)
(* alone                                                                   *)
FirstByteOneDigit(a, b) == a * 2

(* The first byte of a group of digits a, b, ... *)
FirstByte(a, b) == a * 2 + b \div 4

(* base64.StdEncoding.DecodeString: [ok, bs] *)
RECURSIVE DecodeString(_)
DecodeString(s) ==
    IF Len(s) = 0 THEN [ok |-> TRUE, bs |-> <<>>]
    ELSE IF Len(s) < 4 \/ ~IsDigit(s[1]) \/ ~IsDigit(s[2])
    THEN [ok |-> FALSE, bs |-> <<>>]
    ELSE LET a == DecodeDigit(s[1])
             b == DecodeDigit(s[2])
         IN
         IF s[3] = Pad
         THEN IF Len(s) = 4 /\ s[4] = Pad
              THEN [ok |-> TRUE, bs |-> <<FirstByte(a, b)>>]
              ELSE [ok |-> FALSE, bs |-> <<>>]
         ELSE IF ~IsDigit(s[3]) THEN [ok |-> FALSE, bs |-> <<>>]
         ELSE LET c == DecodeDigit(s[3]) IN
              IF s[4] = Pad
              THEN IF Len(s) = 4
                   THEN [ok |-> TRUE,
                         bs |-> <<FirstByte(a, b), (b % 4) * 4 + c \div 2>>]
                   ELSE [ok |-> FALSE, bs |-> <<>>]
              ELSE IF ~IsDigit(s[4]) THEN [ok |-> FALSE, bs |-> <<>>]
              ELSE LET d == DecodeDigit(s[4])
                       rest == DecodeString(SubSeq(s, 5, Len(s)))
                   IN
                   [ok |-> rest.ok,
                    bs |-> IF rest.ok
                           THEN <<FirstByte(a, b), (b % 4) * 4 + c \div 2,
                                  (c % 2) * 8 + d>> \o rest.bs
                           ELSE <<>>]

(* The size cap of BodyOnlySerializer, 256*1024 bytes, scaled *)
MaxContent == 4

(* BodyOnlySerializer.Serialize of a request with the body req.body, whose
   reader fails if req.readErr: [err, content] *)
Serialize(req, noBase64) ==
    IF req.readErr THEN [err |-> "read", content |-> <<>>]
    ELSE LET encoded == IF noBase64 THEN req.body ELSE EncodeToString(req.body) IN
         IF Len(encoded) > MaxContent
         THEN [err |-> "tooLarge", content |-> <<>>]
         ELSE [err |-> "none", content |-> encoded]

(* A Deserialize that never decodes *)
DeserializeBodyRaw(content, noBase64) == content

(* BodyOnlySerializer.Deserialize: the body of the request it returns *)
DeserializeBody(content, noBase64) ==
    IF noBase64 THEN content
    ELSE LET decoded == DecodeString(content) IN
         IF decoded.ok THEN decoded.bs ELSE content

(* json.Marshal of a string and json.Unmarshal of the result: a byte that is
   not valid UTF-8 (here Invalid) comes back as U+FFFD (here Replacement). *)
Invalid == 15
Replacement == 14
JsonString(s) == [i \in 1..Len(s) |-> IF s[i] = Invalid THEN Replacement ELSE s[i]]

---------------------------------------------------------------------------
(* The queue service, stub.Server, and the client calls that reach it.     *)

NoMessage == [state |-> "unsent", content |-> <<>>, vt |-> 0, created |-> 0]

(* time.Now().UnixMilli() at the clock value t *)
Millis(t) == t * 3000

(* Server.AddMessage: the queue with the message id added at ms *)
StubAdd(msgs, id, content, ms) ==
    [msgs EXCEPT ![id] =
        [state |-> "present", content |-> content, vt |-> 0, created |-> ms]]

(* A faulty handleReceiveMessages, which hands out leased messages too *)
ReceivableIgnoringLease(msgs, t) ==
    { id \in MsgIds : msgs[id].state = "present" }

(* handleReceiveMessages: the ids it returns *)
Receivable(msgs, t) ==
    { id \in MsgIds : msgs[id].state = "present" /\ msgs[id].vt < t }

(* handleReceiveMessages: the queue after the call *)
StubReceive(msgs, t) ==
    [id \in MsgIds |->
        IF id \in Receivable(msgs, t)
        THEN [msgs[id] EXCEPT !.vt = t + LeaseLen]
        ELSE msgs[id]]

(* A queue that grants every extend call and moves no deadline *)
StubExtendFrozen(msgs, id, t) ==
    [code |-> 200, msgs |-> msgs, vt |-> msgs[id].vt]

(* handleExtendVisibility: [code, msgs, vt] *)
StubExtend(msgs, id, t) ==
    IF msgs[id].state # "present"
    THEN [code |-> 404, msgs |-> msgs, vt |-> 0]
    ELSE IF msgs[id].vt > t
    THEN [code |-> 409, msgs |-> msgs, vt |-> 0]
    ELSE [code |-> 200,
          msgs |-> [msgs EXCEPT ![id].vt = @ + LeaseLen],
          vt |-> msgs[id].vt + LeaseLen]

(* handleDeleteMessage: [code, msgs] *)
StubDelete(msgs, id) ==
    IF msgs[id].state # "present"
    THEN [code |-> 404, msgs |-> msgs]
    ELSE [code |-> 200, msgs |-> [msgs EXCEPT ![id].state = "deleted"]]

(* Client.ExtendVisibilityTimeout: net is FALSE when the HTTP request      *)
(* fails (doRequest: "request failed").  [err, msgs, vt]                   *)
ExtendVisibilityTimeout(msgs, id, t, net) ==
    IF ~net THEN [err |-> "net", msgs |-> msgs, vt |-> 0]
    ELSE LET r == StubExtend(msgs, id, t) IN
         [err |-> IF r.code = 200 THEN "none" ELSE "api",
          msgs |-> r.msgs, vt |-> r.vt]

(* Client.DeleteMessage: [err, msgs] *)
DeleteMessage(msgs, id, net) ==
    IF ~net THEN [err |-> "net", msgs |-> msgs]
    ELSE LET r == StubDelete(msgs, id) IN
         [err |-> IF r.code = 200 THEN "none" ELSE "api", msgs |-> r.msgs]

(* Serializer.Deserialize of the configured serializer succeeds: the       *)
(* default serializer refuses nothing, a custom one refuses Bad.           *)
Deserialize(content) == serializer = "BodyOnly" \/ content # Bad

(* The body of the request that Deserialize returns.  A custom serializer  *)
(* is taken to carry the body as it is.                                    *)
RequestBody(content) ==
    IF serializer = "BodyOnly" THEN DeserializeBody(content, FALSE) ELSE content

(* req.Write(&buf): the request line and the headers, as one unit, and the *)
(* body after them                                                         *)
ReqHead == -1
Render(body) == <<ReqHead>> \o body

---------------------------------------------------------------------------
(* Conn                                                                    *)

(* The Transport before its first RoundTrip, and no body in the serializer *)
NoRoundTrip ==
    [noBase64 |-> FALSE, key |-> TRUE,
     calls |-> 0, sends |-> 0, added |-> 0, ser |-> "none", serr |-> "unsent",
     err |-> "none",
     resp |-> FALSE, status |-> 0, body |-> "", queue |-> FALSE, id |-> 0,
     created |-> -1, content |-> <<>>, apiCode |-> 0, apiMessage |-> "",
     method |-> ""]

NoCodec ==
    [pc |-> "none", noBase64 |-> FALSE, p |-> <<>>, err |-> "none",
     content |-> <<>>, body |-> <<>>]

(* A slot of conns no Conn was constructed in yet. *)
NoConn ==
    [live |-> FALSE, id |-> 1, vt |-> 0, initErr |-> FALSE, extendErr |-> "none",
     reqBytes |-> <<>>, got |-> <<>>, respBuffer |-> <<>>, respHandler |-> FALSE,
     canceled |-> FALSE, gpc |-> "none", late |-> FALSE, timerAt |-> 0,
     pc |-> "idle", seconds |-> 0, target |-> 0, attempts |-> 0,
     written |-> FALSE, decisions |-> 0, born |-> 0, renewals |-> 0, sRet |-> "none",
     cRet |-> "none", cSaw |-> "none", cStatus |-> 0, cRA |-> -2, cHerr |-> FALSE,
     cObs |-> 0, cDel |-> 0, cDelFail |-> FALSE, cExt |-> 0, cExtFail |-> FALSE]

(* An init that starts the renewal goroutine before it decodes *)
NewConnRenewing(m, handler) ==
    [NoConn EXCEPT
        !.live = TRUE, !.id = m.id, !.vt = m.vt, !.born = now,
        !.initErr = ~Deserialize(m.content),
        !.reqBytes = IF Deserialize(m.content)
                     THEN Render(RequestBody(m.content)) ELSE <<>>,
        !.respHandler = handler,
        !.gpc = "timer",
        !.timerAt = now + TimerDelay(m.vt - now)]

(* newConn and Conn.init for message m = [id, vt, content], with           *)
(* conn.respHandler as Listener.Accept sets it.                            *)
NewConn(m, handler) ==
    LET ok == Deserialize(m.content) IN
    [NoConn EXCEPT
        !.live = TRUE, !.id = m.id, !.vt = m.vt, !.born = now,
        !.initErr = ~ok,
        !.reqBytes = IF ok THEN Render(RequestBody(m.content)) ELSE <<>>,
        !.respHandler = handler,
        !.gpc = IF ok THEN "timer" ELSE "none",
        !.timerAt = IF ok THEN now + TimerDelay(m.vt - now) ELSE 0]

Idle(c) == conns[c].live /\ conns[c].pc = "idle"

(* A Wait that does not wait *)
StoppedAlways(c) == TRUE

(* The renewal goroutine has returned (or was never started): what
   c.extendWg.Wait() waits for. *)
Stopped(c) == conns[c].gpc \in {"none", "done"}

ListenerVars ==
    <<acceptedMessages, baseCtx, baseCancel, respHandler, serializer, apc,
      acceptRet, closeSeen, lClosed, polled, discards, serveLimit, nconns>>

(* The variables of the Transport and of the serializer on its own *)
TransportVars == <<rt, codec>>

(* A stream that never looks at the recorded renewal error *)
LeaseFailedNever(extendErr) == FALSE

(* if c.extendErr != nil *)
LeaseFailed(extendErr) == extendErr # "none"

(* A Read that does not look at the decode error *)
ReadResultIgnoringInit(k, n) ==
    IF k.extendErr # "none" THEN [err |-> "extend", n |-> 0]
    ELSE IF Len(k.reqBytes) = 0 THEN [err |-> "closed", n |-> 0]
    ELSE [err |-> "none", n |-> IF n < Len(k.reqBytes) THEN n ELSE Len(k.reqBytes)]

(* A Read that reports no end of the request *)
ReadResultNeverClosed(k, n) ==
    IF k.initErr THEN [err |-> "init", n |-> 0]
    ELSE IF k.extendErr # "none" THEN [err |-> "extend", n |-> 0]
    ELSE [err |-> "none", n |-> IF n < Len(k.reqBytes) THEN n ELSE Len(k.reqBytes)]

(* What Conn.Read returns for the stream in state k and a buffer of n
   bytes: [err, n] *)
ReadResult(k, n) ==
    IF k.initErr THEN [err |-> "init", n |-> 0]
    ELSE IF LeaseFailed(k.extendErr) THEN [err |-> "extend", n |-> 0]
    ELSE IF Len(k.reqBytes) = 0 THEN [err |-> "closed", n |-> 0]
    ELSE [err |-> "none", n |-> Min(n, Len(k.reqBytes))]

(* What Conn.Write returns for the stream in state k and the bytes b:
   [err, n] *)
WriteResult(k, b) ==
    IF LeaseFailed(k.extendErr) THEN [err |-> "extend", n |-> 0]
    ELSE IF Len(b) = 0 THEN [err |-> "none", n |-> 0]
    ELSE [err |-> "none", n |-> Len(b)]

(* Conn.Read with a buffer of n bytes; got is what the calls have copied
   to their buffers so far *)
Read(c, n) ==
    /\ Idle(c)
    /\ LET k == conns[c]
           r == ReadResult(k, n)
       IN
       conns' = [conns EXCEPT ![c] =
          [k EXCEPT !.reqBytes = SubSeq(@, r.n + 1, Len(@)),
                    !.got = @ \o SubSeq(k.reqBytes, 1, r.n)]]
    /\ UNCHANGED <<now, messages, ListenerVars, TransportVars>>

(* Conn.Write of the bytes b *)
Write(c, b) ==
    /\ Idle(c)
    /\ Len(conns[c].respBuffer) + Len(b) <= MaxBuf
    /\ LET k == conns[c]
           n == WriteResult(k, b).n
       IN
       conns' = [conns EXCEPT ![c] =
          IF n = 0 THEN k
          ELSE [k EXCEPT !.respBuffer = @ \o SubSeq(b, 1, n), !.written = TRUE]]
    /\ UNCHANGED <<now, messages, ListenerVars, TransportVars>>

(* Faulty success tests: 200 left out; no upper limit *)
IsSuccessAbove200(statusCode) == statusCode > 200 /\ statusCode < 300
IsSuccessUnlimited(statusCode) == statusCode >= 200

(* statusCode >= 200 && statusCode < 300 *)
IsSuccess(statusCode) == statusCode >= 200 /\ statusCode < 300

(* What c.respHandler.HandleResponse may return: an error or not; without
   a handler there is no call. *)
HandlerErrs(k) == IF k.respHandler THEN BOOLEAN ELSE {FALSE}

(* A Close that has no observer to call *)
ObserverCallsNever(k) == 0

(* if c.respHandler != nil: the calls of HandleResponse for one parsed
   response *)
ObserverCalls(k) == IF k.respHandler THEN 1 ELSE 0

(* A Close that parses whatever the buffer holds *)
NoResponseNever(buf) == FALSE

(* if c.respBuffer.Len() == 0 *)
NoResponse(buf) == Len(buf) = 0

(* A Close that ignores the error of HandleResponse *)
HandlerAbortsNever(herr) == FALSE

(* The error of HandleResponse ends Close *)
HandlerAborts(herr) == herr

(* strconv.Atoi accepts the Retry-After value v *)
Atoi(v) == v >= 0

(* A Close that swallows the error of DeleteMessage *)
CloseAfterDeleteSwallowed(err) == "nil"

(* What Close returns after c.client.DeleteMessage returned err. *)
CloseAfterDelete(err) == IF err # "none" THEN "deleteErr" ELSE "nil"

(* A Retry-After loop that goes on after a failed extend call *)
RetryAfterContinuesAlways(err) == TRUE

(* The Retry-After loop goes on extending after an extend call that
   returned err. *)
RetryAfterContinues(err) == err = "none"

(* A Retry-After loop that extends an expired lease only *)
RetryAfterShortWhenExpired(vt, t, seconds) == vt - t <= 0

(* for time.Until(c.msg.VisibilityTimeoutTime()) < seconds * time.Second *)
RetryAfterShort(vt, t, seconds) == vt - t < seconds

(* The stream as Close finds it: the record of the previous Close call is
   cleared. *)
CloseEnter(k) ==
    [k EXCEPT !.canceled = TRUE,
              !.cRet = "running", !.cSaw = "none", !.cStatus = 0, !.cRA = -2,
              !.cHerr = FALSE, !.cObs = 0, !.cDel = 0, !.cDelFail = FALSE,
              !.cExt = 0, !.cExtFail = FALSE]

(* Close returns ret *)
CloseReturn(k, ret) == [k EXCEPT !.pc = "idle", !.cRet = ret, !.seconds = 0]

(* Conn.Close from the return of c.extendWg.Wait() on, for the stream in
   state k: up to the return of Close or to the head of the Retry-After
   loop.  herr: the response handler returns an error; net: the delete
   request reaches the queue. *)
CloseBody(c, k) ==
    IF NoResponse(k.respBuffer)
    THEN /\ conns' = [conns EXCEPT ![c] = CloseReturn([k EXCEPT !.cSaw = "empty"], "nil")]
         /\ UNCHANGED messages
    ELSE LET resp == ReadResponse(k.respBuffer) IN
         IF ~resp.ok
         THEN /\ conns' = [conns EXCEPT ![c] =
                    CloseReturn([k EXCEPT !.respBuffer = resp.rest, !.cSaw = "bad"],
                                "parseErr")]
              /\ UNCHANGED messages
         ELSE \E herr \in HandlerErrs(k), net \in BOOLEAN :
              LET k1 == [k EXCEPT !.respBuffer = resp.rest, !.cSaw = "resp",
                                  !.cStatus = resp.status, !.cRA = resp.retryAfter,
                                  !.cHerr = herr,
                                  !.cObs = @ + ObserverCalls(k)]
              IN
              IF HandlerAborts(herr)
              THEN /\ conns' = [conns EXCEPT ![c] = CloseReturn(k1, "obsErr")]
                   /\ UNCHANGED messages
              ELSE IF IsSuccess(resp.status)
              THEN LET d == DeleteMessage(messages, k.id, net) IN
                   /\ messages' = d.msgs
                   /\ conns' = [conns EXCEPT ![c] =
                         CloseReturn([k1 EXCEPT !.cDel = @ + 1,
                                                !.cDelFail = d.err # "none",
                                                !.decisions = Min(@ + 1, 2)],
                                     CloseAfterDelete(d.err))]
              ELSE IF resp.retryAfter # -2
              THEN /\ conns' = [conns EXCEPT ![c] =
                         IF ~Atoi(resp.retryAfter)
                         THEN CloseReturn(k1, "nil")
                         ELSE [k1 EXCEPT !.pc = "close_ra", !.seconds = resp.retryAfter]]
                   /\ UNCHANGED messages
              ELSE /\ conns' = [conns EXCEPT ![c] = CloseReturn(k1, "nil")]
                   /\ UNCHANGED messages

(* Conn.Close is called: c.extendCancel(), and c.extendWg.Wait().  When the
   renewal goroutine has already returned, Wait returns at once and Close
   goes on. *)
CloseCall(c) ==
    /\ Idle(c)
    /\ IF Stopped(c)
       THEN CloseBody(c, CloseEnter(conns[c]))
       ELSE /\ conns' = [conns EXCEPT ![c] = [CloseEnter(@) EXCEPT !.pc = "close_wait"]]
            /\ UNCHANGED messages
    /\ UNCHANGED <<now, ListenerVars, TransportVars>>

(* Conn.Close: c.extendWg.Wait() returns *)
CloseDecide(c) ==
    /\ conns[c].live /\ conns[c].pc = "close_wait"
    /\ Stopped(c)
    /\ CloseBody(c, conns[c])
    /\ UNCHANGED <<now, ListenerVars, TransportVars>>

(* Conn.Close: one turn of the Retry-After loop.  net: the extend request
   reaches the queue. *)
CloseRetryAfter(c) ==
    /\ conns[c].live /\ conns[c].pc = "close_ra"
    /\ LET k == conns[c] IN
       IF RetryAfterShort(k.vt, now, k.seconds)
       THEN \E net \in BOOLEAN :
            LET r == ExtendVisibilityTimeout(messages, k.id, now, net)
                k1 == [k EXCEPT !.cExt = @ + 1,
                                !.cExtFail = r.err # "none",
                                !.decisions = IF k.cExt = 0 THEN Min(@ + 1, 2) ELSE @]
            IN
            /\ messages' = r.msgs
            /\ conns' = [conns EXCEPT ![c] =
                  IF RetryAfterContinues(r.err)
                  THEN [k1 EXCEPT !.vt = r.vt]
                  ELSE CloseReturn(k1, "nil")]
       ELSE /\ conns' = [conns EXCEPT ![c] = CloseReturn(k, "nil")]
            /\ UNCHANGED messages
    /\ UNCHANGED <<now, ListenerVars, TransportVars>>

---------------------------------------------------------------------------
(* The renewal goroutine of Conn.init                                      *)

(* select: case <-c.extendCtx.Done() *)
RenewStop(c) ==
    /\ conns[c].live /\ conns[c].gpc = "timer"
    /\ conns[c].canceled
    /\ conns' = [conns EXCEPT ![c].gpc = "done"]
    /\ UNCHANGED <<now, messages, ListenerVars, TransportVars>>

(* select: case <-timer.C, and the extend call issued; late: with the
   context canceled already *)
RenewFire(c) ==
    /\ conns[c].live /\ conns[c].gpc = "timer"
    /\ conns[c].timerAt <= now
    /\ conns' = [conns EXCEPT ![c].gpc = "calling", ![c].late = conns[c].canceled]
    /\ UNCHANGED <<now, messages, ListenerVars, TransportVars>>

(* A goroutine that records context.Canceled like any other error *)
RenewRecordsAll(old, err) == err

(* A goroutine that records no error *)
RenewRecordsNothing(old, err) == old

(* c.extendErr after the goroutine's extend call returned the error err:
   context.Canceled is not recorded. *)
RenewRecords(old, err) == IF err = "canceled" THEN old ELSE err

(* Whether the canceled context aborts the extend call that is in flight:
   it does if the cancel comes before the answer of the queue is in hand,
   and the call returns its own result if the answer was in hand already. *)
Aborts(canceled) == IF canceled THEN BOOLEAN ELSE {FALSE}

(* c.client.ExtendVisibilityTimeout(c.extendCtx, c.msg.ID) and what follows
   it.  A call issued with the context canceled returns context.Canceled
   and does not reach the queue; a call the cancel aborts in flight returns
   context.Canceled, whether the queue served the request or not. *)
RenewExtend(c) ==
    /\ conns[c].live /\ conns[c].gpc = "calling"
    /\ LET k == conns[c] IN
       \E net \in BOOLEAN, aborted \in Aborts(k.canceled) :
       LET r == ExtendVisibilityTimeout(messages, k.id, now, net /\ ~k.late)
           err == IF aborted \/ k.late THEN "canceled" ELSE r.err
       IN
       /\ messages' = r.msgs
       /\ conns' = [conns EXCEPT ![c] =
             IF err # "none"
             THEN [k EXCEPT !.gpc = "done", !.extendErr = RenewRecords(@, err),
                            !.renewals = 1, !.late = FALSE]
             ELSE [k EXCEPT !.vt = r.vt, !.renewals = 1,
                            !.timerAt = now + TimerDelay(r.vt - now),
                            !.gpc = "timer"]]
    /\ UNCHANGED <<now, ListenerVars, TransportVars>>

---------------------------------------------------------------------------
(* Conn.SetDeadline (SetReadDeadline and SetWriteDeadline call it)         *)

MaxAttempts == 10

(* The deadlines a caller passes: the zero time, a past time, a future one *)
Deadlines == {0, 1, 15}

(* A SetDeadline that treats a past deadline as a future one *)
DeadlineUnsetOnly(t, current) == t = 0

(* t.IsZero(), or time.Until(t) <= 0 *)
DeadlineUnsetOrPast(t, current) == t = 0 \/ t - current <= 0

(* A loop that stops one lease short of the deadline *)
DeadlineShortByLease(vt, t, attempts) ==
    vt + LeaseLen < t /\ attempts < MaxAttempts

(* currentTimeout.Before(t) && attempts < maxAttempts *)
DeadlineShort(vt, t, attempts) == vt < t /\ attempts < MaxAttempts

(* SetDeadline returns ret *)
SetDeadlineReturn(k, ret) ==
    [k EXCEPT !.pc = "idle", !.sRet = ret, !.target = 0, !.attempts = 0]

(* Conn.SetDeadline(t) is called: c.extendCancel(), and c.extendWg.Wait() *)
SetDeadlineCall(c, t) ==
    /\ Idle(c)
    /\ conns' = [conns EXCEPT ![c] =
          [@ EXCEPT !.canceled = TRUE, !.target = t, !.sRet = "running",
                    !.pc = "sd_wait"]]
    /\ UNCHANGED <<now, messages, ListenerVars, TransportVars>>

(* Conn.SetDeadline: c.extendWg.Wait() returns; from there to the head of
   the loop *)
SetDeadlineDecide(c) ==
    /\ conns[c].live /\ conns[c].pc = "sd_wait"
    /\ Stopped(c)
    /\ LET k == conns[c] IN
       conns' = [conns EXCEPT ![c] =
          IF DeadlineUnsetOrPast(k.target, now)
          THEN SetDeadlineReturn(k, "nil")
          ELSE [k EXCEPT !.pc = "sd_loop", !.attempts = 0]]
    /\ UNCHANGED <<now, messages, ListenerVars, TransportVars>>

(* one turn of the loop.  net: the extend request reaches the queue. *)
SetDeadlineLoop(c) ==
    /\ conns[c].live /\ conns[c].pc = "sd_loop"
    /\ LET k == conns[c] IN
       IF DeadlineShort(k.vt, k.target, k.attempts)
       THEN \E net \in BOOLEAN :
            LET r == ExtendVisibilityTimeout(messages, k.id, now, net) IN
            /\ messages' = r.msgs
            /\ conns' = [conns EXCEPT ![c] =
                  IF r.err # "none"
                  THEN SetDeadlineReturn(k, "extendErr")
                  ELSE [k EXCEPT !.vt = r.vt, !.attempts = @ + 1]]
       ELSE /\ conns' = [conns EXCEPT ![c] = SetDeadlineReturn(k, "nil")]
            /\ UNCHANGED messages
    /\ UNCHANGED <<now, ListenerVars, TransportVars>>

---------------------------------------------------------------------------
(* The queue's producers, and Listener                                     *)

(* stub.Server.AddMessage (handleSendMessage): a new message, its
   VisibilityTimeoutAt zero *)
AddMessage(id, content) ==
    /\ messages[id].state = "unsent"
    /\ \A j \in MsgIds : j < id => messages[j].state # "unsent"
    /\ messages' = StubAdd(messages, id, content, Millis(now))
    /\ UNCHANGED <<now, ListenerVars, TransportVars, conns>>

(* A mutex that excludes nobody *)
MuFreeAlways == TRUE

(* l.mu is not held *)
MuFree == \A a \in Callers : apc[a] # "locked"

(* The number of Accept calls in progress *)
Accepting == Cardinality({ a \in Callers : apc[a] # "idle" })

(* Listener.Accept is called by a: l.baseContext(), under l.mu *)
AcceptCall(a) ==
    /\ apc[a] = "idle"
    /\ MuFree
    /\ nconns + Accepting < serveLimit
    /\ apc' = [apc EXCEPT ![a] = "running"]
    /\ closeSeen' = [closeSeen EXCEPT ![a] = FALSE]
    /\ baseCtx' = IF baseCtx = "nil" THEN "active" ELSE baseCtx
    /\ baseCancel' = IF baseCtx = "nil" THEN TRUE ELSE baseCancel
    /\ UNCHANGED <<now, messages, acceptedMessages, respHandler, serializer,
                   acceptRet, lClosed, polled, discards, serveLimit, nconns,
                   conns, TransportVars>>

(* The messages a poll at time t returns, as the client decodes them *)
Received(msgs, order, t) ==
    [i \in 1..Len(order) |->
        [id |-> order[i], vt |-> t + LeaseLen,
         content |-> JsonString(msgs[order[i]].content)]]

(* An accept that never discards *)
ExpiredNever(m, t) == FALSE

(* Accept: what it does with the message m that l.accept popped: discard
   it, or return a stream for it *)
Expired(m, t) == m.vt - t <= 0

(* An Accept that returns the error of the poll as it is *)
AcceptErrorRaw(canceled) == "err"

(* What Accept returns for the error of l.accept: net.ErrClosed if the
   error is context.Canceled, else the error *)
AcceptError(canceled) == IF canceled THEN "closed" ELSE "err"

(* An accept that takes the newest buffered message *)
PopLast(buf) == buf[Len(buf)]

(* msg := l.acceptedMessages[0] *)
PopHead(buf) == buf[1]

(* An acceptor that polls at every turn *)
NeedsPollAlways(buf) == TRUE

(* for len(l.acceptedMessages) == 0 *)
NeedsPoll(buf) == Len(buf) = 0

(* One turn of the loop of Listener.Accept by caller a: l.accept under l.mu
   (a poll if the buffer is empty, then the pop or another turn with l.mu
   held), the expiry test and newConn.  net: the receive request reaches
   the queue. *)
AcceptStep(a) ==
    /\ apc[a] = "locked" \/ (apc[a] = "running" /\ MuFree)
    /\ \E net \in BOOLEAN :
       LET poll == NeedsPoll(acceptedMessages)
           served == poll /\ net /\ baseCtx # "canceled"
           got == IF served THEN Receivable(messages, now) ELSE {}
       IN
       \E order \in Orders(got) :
       LET buf == acceptedMessages \o Received(messages, order, now)
           all == polled \o order
       IN
       /\ messages' = IF served THEN StubReceive(messages, now) ELSE messages
       /\ polled' = all
       /\ IF poll /\ (baseCtx = "canceled" \/ ~net)
          THEN /\ apc' = [apc EXCEPT ![a] = "idle"]
               /\ acceptRet' = [acceptRet EXCEPT ![a] = AcceptError(baseCtx = "canceled")]
               /\ UNCHANGED <<acceptedMessages, discards, nconns, conns>>
          ELSE IF buf = <<>>
          THEN /\ apc' = [apc EXCEPT ![a] = "locked"]
               /\ UNCHANGED <<acceptRet, acceptedMessages, discards, nconns, conns>>
          ELSE /\ acceptedMessages' = Tail(buf)
               /\ IF Expired(PopHead(buf), now)
                  THEN /\ apc' = [apc EXCEPT ![a] = "running"]
                       /\ discards' = discards \cup {Len(all) - Len(buf) + 1}
                       /\ UNCHANGED <<acceptRet, nconns, conns>>
                  ELSE /\ apc' = [apc EXCEPT ![a] = "idle"]
                       /\ acceptRet' = [acceptRet EXCEPT ![a] = "conn"]
                       /\ nconns' = nconns + 1
                       /\ conns' = [conns EXCEPT ![nconns + 1] =
                                       NewConn(PopHead(buf), respHandler)]
                       /\ UNCHANGED discards
    /\ UNCHANGED <<now, baseCtx, baseCancel, respHandler, serializer, closeSeen,
                   lClosed, serveLimit, TransportVars>>

(* Listener.Close *)
ListenerClose ==
    /\ baseCtx' = IF baseCancel THEN "canceled" ELSE baseCtx
    /\ baseCancel' = FALSE
    /\ closeSeen' = [a \in Callers |->
          closeSeen[a] \/ (apc[a] # "idle" /\ acceptedMessages = <<>>)]
    /\ lClosed' = TRUE
    /\ UNCHANGED <<now, messages, acceptedMessages, respHandler, serializer, apc,
                   acceptRet, polled, discards, serveLimit, nconns, conns,
                   TransportVars>>

---------------------------------------------------------------------------
(* The clock.  It advances when nothing is in progress: no call of a Conn
   method, no extend call of a renewal goroutine, no renewal timer that is
   due, no poll that would return a message or an error, no Accept call
   that l.mu is free for; and the server loop is in Accept while it has
   streams to accept and the buffer holds nothing for it.                  *)
Busy(c) ==
    /\ conns[c].live
    /\ \/ conns[c].pc # "idle"
       \/ conns[c].gpc = "calling"
       \/ conns[c].gpc = "timer" /\ (conns[c].canceled \/ conns[c].timerAt <= now)

Tick ==
    /\ now < MaxTime
    /\ \A c \in ConnIds : ~Busy(c)
    /\ \A a \in Callers :
          /\ apc[a] = "locked" =>
                /\ acceptedMessages = <<>>
                /\ Receivable(messages, now) = {}
                /\ baseCtx # "canceled"
          /\ apc[a] = "running" => \E b \in Callers : apc[b] = "locked"
    /\ (\A a \in Callers : apc[a] = "idle") /\ acceptedMessages = <<>>
          => nconns >= serveLimit \/ baseCtx = "canceled"
    /\ now' = now + 1
    /\ UNCHANGED <<messages, ListenerVars, TransportVars, conns>>

---------------------------------------------------------------------------
(* Transport                                                               *)

(* RoundTrip calls the model follows *)
MaxCalls == 2

(* The requests RoundTrip is called with: no body, a body that fits, a body
   with a byte that is not valid UTF-8, a body over the size cap once it is
   encoded; a body whose reader fails; a HEAD request. *)
Requests ==
    { [method |-> "POST", body |-> b, readErr |-> FALSE] :
        b \in { <<>>, <<2, 9>>, <<Invalid>>, <<1, 2, 3, 4>> } }
    \cup { [method |-> "POST", body |-> <<2>>, readErr |-> TRUE],
           [method |-> "HEAD", body |-> <<>>, readErr |-> FALSE] }

(* What becomes of the HTTP request of a send: it is served and answered,
   it never reaches the queue, or it is served and the answer is lost. *)
Nets == {"ok", "lost", "replyLost"}

(* msg.CreatedTime().Format(time.RFC3339): the time to the second *)
RFC3339(ms) == ms \div 1000

(* The id Server.AddMessage gives the next message, 0 if the ids are used up *)
NextId(msgs) ==
    IF \E id \in MsgIds : msgs[id].state = "unsent"
    THEN CHOOSE id \in MsgIds :
            /\ msgs[id].state = "unsent"
            /\ \A j \in MsgIds : j < id => msgs[j].state # "unsent"
    ELSE 0

(* authMiddleware and handleSendMessage, for the content as the client's
   JSON carries it: [code, message, msgs, id] *)
StubSend(msgs, content, key, ms) ==
    IF ~key
    THEN [code |-> 401, message |-> "unauthorized", msgs |-> msgs, id |-> 0]
    ELSE [code |-> 200, message |-> "",
          msgs |-> StubAdd(msgs, NextId(msgs), JsonString(content), ms),
          id |-> NextId(msgs)]

(* Client.SendMessage: [err, code, message, msgs, id, created].  With the
   context canceled or the request lost the queue is not reached; with the
   answer lost the message is added and the call fails all the same. *)
SendMessage(msgs, content, canceled, net, key, ms) ==
    LET r == StubSend(msgs, content, key, ms) IN
    IF canceled
    THEN [err |-> "canceled", code |-> 0, message |-> "", msgs |-> msgs,
          id |-> 0, created |-> 0]
    ELSE IF net = "lost"
    THEN [err |-> "net", code |-> 0, message |-> "", msgs |-> msgs,
          id |-> 0, created |-> 0]
    ELSE IF net = "replyLost"
    THEN [err |-> "net", code |-> 0, message |-> "", msgs |-> r.msgs,
          id |-> 0, created |-> 0]
    ELSE IF r.code # 200
    THEN [err |-> "api", code |-> r.code, message |-> r.message, msgs |-> r.msgs,
          id |-> 0, created |-> 0]
    ELSE [err |-> "none", code |-> 0, message |-> "", msgs |-> r.msgs,
          id |-> r.id, created |-> r.msgs[r.id].created]

(* http.ReadResponse accepts the status line "HTTP/1.1 %d %s": the code has
   three digits *)
StatusLineOk(code) == code >= 100 /\ code <= 999

(* The body of the response http.ReadResponse returns for the request req:
   none for a HEAD request and for a status that allows no body *)
ResponseBody(method, code, text) ==
    IF method = "HEAD" \/ code < 200 \/ code \in {204, 304} THEN "" ELSE text

(* A transport that answers every queue error with 500 *)
ErrorStatus500(code) == 500

(* The status of the response synthesized for an APIError *)
ErrorStatus(code) == code

(* errors.As(err, &apiErr) *)
IsAPIError(err) == err = "api"

(* A transport that sends whatever the serializer returned *)
SerializeFailedNever(err) == FALSE

(* content, err := t.serializer().Serialize(req); err != nil *)
SerializeFailed(err) == err # "none"

(* The number of messages of after that are not in before *)
Added(before, after) ==
    Cardinality({ id \in MsgIds :
        before[id].state = "unsent" /\ after[id].state # "unsent" })

(* Transport.RoundTrip(req), with the request's context canceled or not *)
RoundTrip(req, canceled, net) ==
    /\ rt.calls < MaxCalls
    /\ NextId(messages) # 0
    /\ \E ms \in {Millis(now), Millis(now) + 999} :
       LET ser == Serialize(req, rt.noBase64)
           send == SendMessage(messages, ser.content, canceled, net, rt.key, ms)
           called == [rt EXCEPT !.calls = @ + 1, !.content = ser.content,
                                !.ser = ser.err, !.method = req.method,
                                !.added = 0, !.serr = "unsent", !.resp = FALSE,
                                !.status = 0, !.body = "", !.queue = FALSE,
                                !.id = 0, !.created = -1,
                                !.apiCode = 0, !.apiMessage = ""]
       IN
       IF SerializeFailed(ser.err)
       THEN /\ rt' = [called EXCEPT !.err = ser.err]
            /\ UNCHANGED messages
       ELSE /\ messages' = send.msgs
            /\ LET sent == [called EXCEPT !.sends = @ + 1, !.serr = send.err,
                                          !.added = Added(messages, send.msgs),
                                          !.apiCode = send.code,
                                          !.apiMessage = send.message]
               IN
               rt' = IF send.err # "none" /\ ~IsAPIError(send.err)
                     THEN [sent EXCEPT !.err = send.err]
                     ELSE IF send.err # "none"
                     THEN IF StatusLineOk(ErrorStatus(send.code))
                          THEN [sent EXCEPT !.err = "none", !.resp = TRUE,
                                            !.status = ErrorStatus(send.code),
                                            !.body = ResponseBody(req.method,
                                                       ErrorStatus(send.code),
                                                       send.message),
                                            !.queue = TRUE]
                          ELSE [sent EXCEPT !.err = "response"]
                     ELSE [sent EXCEPT !.err = "none", !.resp = TRUE,
                                       !.status = 202, !.queue = TRUE,
                                       !.id = send.id,
                                       !.created = RFC3339(send.created)]
    /\ UNCHANGED <<now, ListenerVars, conns, codec>>

---------------------------------------------------------------------------
(* The state after NewListenerWithClient, with the messages of ids queued
   and the callers of Accept about to accept `limit` streams in all. *)
InitWith(limit, ids) ==
    /\ now = 1
    /\ messages \in [MsgIds -> { [state |-> "present", content |-> c, vt |-> 0,
                                  created |-> 0] :
                                  c \in Contents } \cup {NoMessage}]
    /\ \A id \in MsgIds : messages[id] = NoMessage <=> id \notin ids
    /\ acceptedMessages = <<>>
    /\ baseCtx = "nil"
    /\ baseCancel = FALSE
    /\ respHandler \in BOOLEAN
    /\ serializer = "Custom"
    /\ rt = NoRoundTrip
    /\ codec = NoCodec
    /\ apc = [a \in Callers |-> "idle"]
    /\ acceptRet = [a \in Callers |-> "none"]
    /\ closeSeen = [a \in Callers |-> FALSE]
    /\ lClosed = FALSE
    /\ polled = <<>>
    /\ discards = {}
    /\ serveLimit = limit
    /\ nconns = 0
    /\ conns = [c \in ConnIds |-> NoConn]

Init == InitWith(1, {1})

Next ==
    \/ \E a \in Server : AcceptCall(a)
    \/ \E a \in Server : AcceptStep(a)
    \/ \E c \in ConnIds : Read(c, ReqLen)
    \/ \E c \in ConnIds, b \in Payloads : Write(c, b)
    \/ \E c \in ConnIds : CloseCall(c)
    \/ \E c \in ConnIds : CloseDecide(c)
    \/ \E c \in ConnIds : CloseRetryAfter(c)
    \/ \E c \in ConnIds : SetDeadlineCall(c, 0)
    \/ \E c \in ConnIds : SetDeadlineDecide(c)
    \/ \E c \in ConnIds : RenewStop(c)
    \/ \E c \in ConnIds : RenewFire(c)
    \/ \E c \in ConnIds : RenewExtend(c)
    \/ Tick

Spec == Init /\ [][Next]_vars

(* Deadlines: one stream, whose user sets deadlines of every kind, and
   writes a response that asks for a retry or none. *)
DeadlinePayloads == { <<Status(503), RetryAfterHdr(12), Eoh>> }

NextDeadline ==
    \/ \E a \in Server : AcceptCall(a)
    \/ \E a \in Server : AcceptStep(a)
    \/ \E c \in ConnIds : Read(c, ReqLen)
    \/ \E c \in ConnIds, b \in DeadlinePayloads : Write(c, b)
    \/ \E c \in ConnIds : CloseCall(c)
    \/ \E c \in ConnIds : CloseDecide(c)
    \/ \E c \in ConnIds : CloseRetryAfter(c)
    \/ \E c \in ConnIds, t \in Deadlines : SetDeadlineCall(c, t)
    \/ \E c \in ConnIds : SetDeadlineDecide(c)
    \/ \E c \in ConnIds : SetDeadlineLoop(c)
    \/ \E c \in ConnIds : RenewStop(c)
    \/ \E c \in ConnIds : RenewFire(c)
    \/ \E c \in ConnIds : RenewExtend(c)
    \/ Tick

SpecDeadline == Init /\ [][NextDeadline]_vars

(* Redelivery: a server loop that accepts two streams, whose handlers write
   a whole response or none. *)
InitLease == InitWith(2, {1})

LeasePayloads == { <<Status(200), Eoh>> }

NextLease ==
    \/ \E a \in Server : AcceptCall(a)
    \/ \E a \in Server : AcceptStep(a)
    \/ \E c \in ConnIds, b \in LeasePayloads : Write(c, b)
    \/ \E c \in ConnIds : CloseCall(c)
    \/ \E c \in ConnIds : CloseDecide(c)
    \/ \E c \in ConnIds : SetDeadlineCall(c, 0)
    \/ \E c \in ConnIds : SetDeadlineDecide(c)
    \/ \E c \in ConnIds : RenewStop(c)
    \/ \E c \in ConnIds : RenewFire(c)
    \/ \E c \in ConnIds : RenewExtend(c)
    \/ Tick

SpecLease == InitLease /\ [][NextLease]_vars

(* Redelivery under a server that keeps polling: the handlers write a
   success, a failure or nothing and close their streams; the server loop
   calls Accept again whenever it has returned, the goroutines of the
   streams take their steps, the queue does not fail every poll, and time
   passes. *)
RedeliverPayloads == { <<Status(200), Eoh>>, <<Status(503), Eoh>> }

(* The handler of stream c writes its response, once, and the server
   closes the stream, once *)
HandlerWrite(c, b) == ~conns[c].written /\ conns[c].cRet = "none" /\ Write(c, b)
HandlerClose(c) == conns[c].cRet = "none" /\ CloseCall(c)

NextRedeliver ==
    \/ \E a \in Server : AcceptCall(a)
    \/ \E a \in Server : AcceptStep(a)
    \/ \E c \in ConnIds, b \in RedeliverPayloads : HandlerWrite(c, b)
    \/ \E c \in ConnIds : HandlerClose(c)
    \/ \E c \in ConnIds : CloseDecide(c)
    \/ \E c \in ConnIds : RenewStop(c)
    \/ \E c \in ConnIds : RenewFire(c)
    \/ \E c \in ConnIds : RenewExtend(c)
    \/ Tick

(* A poll that the queue answers *)
PollOk(a) == AcceptStep(a) /\ (apc'[a] # "idle" \/ nconns' # nconns)

SpecRedeliver ==
    /\ InitLease /\ [][NextRedeliver]_vars
    /\ SF_vars(Tick)
    /\ \A a \in Server : WF_vars(AcceptCall(a)) /\ SF_vars(PollOk(a))
    /\ \A c \in ConnIds :
          /\ WF_vars(CloseDecide(c))
          /\ WF_vars(RenewStop(c))
          /\ WF_vars(RenewFire(c))
          /\ WF_vars(RenewExtend(c))

(* Close to its end: one stream whose handler writes responses of every
   kind and closes; the goroutine of the stream and the Close call take
   their steps, and every call to the queue returns. *)
NextRetry ==
    \/ \E a \in Server : AcceptCall(a)
    \/ \E a \in Server : AcceptStep(a)
    \/ \E c \in ConnIds, b \in Payloads : Write(c, b)
    \/ \E c \in ConnIds : CloseCall(c)
    \/ \E c \in ConnIds : CloseDecide(c)
    \/ \E c \in ConnIds : CloseRetryAfter(c)
    \/ \E c \in ConnIds : RenewStop(c)
    \/ \E c \in ConnIds : RenewFire(c)
    \/ \E c \in ConnIds : RenewExtend(c)
    \/ Tick

SpecRetry ==
    /\ Init /\ [][NextRetry]_vars
    /\ \A c \in ConnIds :
          /\ WF_vars(CloseDecide(c))
          /\ WF_vars(CloseRetryAfter(c))
          /\ WF_vars(RenewStop(c))
          /\ WF_vars(RenewExtend(c))

(* Concurrent acceptors: two goroutines call Accept on an empty queue, to
   which producers add two messages; Listener.Close is called at any time.
   The streams are left alone. *)
InitAccept == InitWith(2, {})

NextAccept ==
    \/ \E id \in MsgIds : AddMessage(id, Req)
    \/ \E a \in Callers : AcceptCall(a)
    \/ \E a \in Callers : AcceptStep(a)
    \/ ListenerClose
    \/ \E c \in ConnIds : RenewFire(c)
    \/ \E c \in ConnIds : RenewExtend(c)
    \/ Tick

SpecAccept == InitAccept /\ [][NextAccept]_vars

(* A goroutine in Accept goes on running: it takes l.mu when it is free and
   goes round its loop. *)
SpecClose == SpecAccept /\ \A a \in Callers : WF_vars(AcceptStep(a))

(* The Transport: a client with the right key or a wrong one, and the
   default serializer or the one without base64, sends requests of every
   kind while the clock runs.  InitQuiet: a listener nobody uses, on an
   empty queue. *)
InitQuiet ==
    /\ now = 1
    /\ messages = [id \in MsgIds |-> NoMessage]
    /\ acceptedMessages = <<>>
    /\ baseCtx = "nil"
    /\ baseCancel = FALSE
    /\ respHandler = FALSE
    /\ serializer = "BodyOnly"
    /\ apc = [a \in Callers |-> "idle"]
    /\ acceptRet = [a \in Callers |-> "none"]
    /\ closeSeen = [a \in Callers |-> FALSE]
    /\ lClosed = FALSE
    /\ polled = <<>>
    /\ discards = {}
    /\ serveLimit = 0
    /\ nconns = 0
    /\ conns = [c \in ConnIds |-> NoConn]

InitTransport ==
    /\ InitQuiet
    /\ rt \in { [NoRoundTrip EXCEPT !.noBase64 = n, !.key = k] :
                  n \in BOOLEAN, k \in BOOLEAN }
    /\ codec = NoCodec

NextTransport ==
    \/ \E req \in Requests, canceled \in BOOLEAN, net \in Nets :
          RoundTrip(req, canceled, net)
    \/ Tick

SpecTransport == InitTransport /\ [][NextTransport]_vars

(* The serializer on its own: a BodyOnlySerializer, with base64 or without,
   serializes a request with the body p and deserializes what it got. *)
MaxBody == 4
BodyBytes == {0, 3, 5, 6, 9, 10, 12, 15}
Bodies == UNION { [1..n -> BodyBytes] : n \in 0..MaxBody }

InitCodec ==
    /\ InitQuiet
    /\ rt = NoRoundTrip
    /\ codec \in { [NoCodec EXCEPT !.pc = "request", !.noBase64 = n, !.p = p] :
                     n \in BOOLEAN, p \in Bodies }

(* content, err := s.Serialize(req) *)
SerializeCall ==
    /\ codec.pc = "request"
    /\ LET r == Serialize([body |-> codec.p, readErr |-> FALSE], codec.noBase64) IN
       codec' = [codec EXCEPT !.pc = "serialized", !.err = r.err,
                              !.content = r.content]
    /\ UNCHANGED <<now, messages, ListenerVars, conns, rt>>

(* req, err := s.Deserialize(content), and the body of req read to its end *)
DeserializeCall ==
    /\ codec.pc = "serialized" /\ codec.err = "none"
    /\ codec' = [codec EXCEPT !.pc = "deserialized",
                              !.body = DeserializeBody(codec.content, codec.noBase64)]
    /\ UNCHANGED <<now, messages, ListenerVars, conns, rt>>

NextCodec == SerializeCall \/ DeserializeCall

SpecCodec == InitCodec /\ [][NextCodec]_vars

(* The server of the tests: a listener with the default serializer, whose
   server loop accepts a stream, reads the request with buffers of every
   size up to ReqLen, writes a 200 response and closes the stream, all of it
   before the clock moves on.  Producers add messages at any time: a payload
   that is no base64 text, and the payload a Transport with the default
   serializer sends for the body <<2, 9>>. *)
Text == EncodeToString(<<2, 9>>)
ServeContents == {Req, Text}

InitServe ==
    /\ now = 1
    /\ messages = [id \in MsgIds |-> NoMessage]
    /\ acceptedMessages = <<>>
    /\ baseCtx = "nil"
    /\ baseCancel = FALSE
    /\ respHandler = FALSE
    /\ serializer = "BodyOnly"
    /\ apc = [a \in Callers |-> "idle"]
    /\ acceptRet = [a \in Callers |-> "none"]
    /\ closeSeen = [a \in Callers |-> FALSE]
    /\ lClosed = FALSE
    /\ polled = <<>>
    /\ discards = {}
    /\ serveLimit = 2
    /\ nconns = 0
    /\ conns = [c \in ConnIds |-> NoConn]
    /\ rt = NoRoundTrip
    /\ codec = NoCodec

(* The handler of the server has the whole request of stream c *)
Handled(c) ==
    conns[c].live /\ ~conns[c].initErr /\ conns[c].got # <<>>
        /\ conns[c].reqBytes = <<>>

(* The server loop is done with stream c *)
Served(c) == conns[c].live => conns[c].cRet \notin {"none", "running"}

ServerRead(c, n) == ~Handled(c) /\ conns[c].cRet = "none" /\ Read(c, n)

ServerWrite(c) ==
    /\ Handled(c) /\ ~conns[c].written /\ conns[c].cRet = "none"
    /\ Write(c, <<Status(200), Eoh>>)

ServerClose(c) ==
    /\ conns[c].cRet = "none"
    /\ conns[c].written \/ ReadResult(conns[c], ReqLen).err \notin {"none", "closed"}
    /\ CloseCall(c)

(* The clock of the server: it advances when the server loop is done with
   every stream it accepted and is back in Accept *)
TickServe ==
    /\ \A c \in ConnIds : Served(c)
    /\ \A a \in Server : apc[a] # "idle" \/ nconns >= serveLimit
    /\ Tick

NextServe ==
    \/ \E id \in MsgIds, content \in ServeContents : AddMessage(id, content)
    \/ \E a \in Server : AcceptCall(a)
    \/ \E a \in Server : AcceptStep(a)
    \/ \E c \in ConnIds, n \in 1..ReqLen : ServerRead(c, n)
    \/ \E c \in ConnIds : ServerWrite(c)
    \/ \E c \in ConnIds : ServerClose(c)
    \/ \E c \in ConnIds : CloseDecide(c)
    \/ \E c \in ConnIds : RenewStop(c)
    \/ TickServe

SpecServe == InitServe /\ [][NextServe]_vars

(* The server loop keeps running: it calls Accept again whenever Accept has
   returned, the handler and the renewal goroutine of every stream take
   their steps, and the queue does not fail every poll. *)
SpecServeFair ==
    /\ SpecServe
    /\ \A a \in Server : WF_vars(AcceptCall(a)) /\ SF_vars(PollOk(a))
    /\ \A c \in ConnIds :
          /\ WF_vars(\E n \in 1..ReqLen : ServerRead(c, n))
          /\ WF_vars(ServerWrite(c))
          /\ WF_vars(ServerClose(c))
          /\ WF_vars(CloseDecide(c))
          /\ WF_vars(RenewStop(c))

---------------------------------------------------------------------------
(* Properties of Conn.Close                                                *)

(* The last Close call on stream c has returned. *)
Closed(c) == conns[c].live /\ conns[c].cRet \notin {"none", "running"}

(* The last Close call on c parsed a response, with a status that is / is
   not in 200..299. *)
SawSuccess(c) == conns[c].cSaw = "resp" /\ conns[c].cStatus \in 200..299
SawFailure(c) == conns[c].cSaw = "resp" /\ conns[c].cStatus \notin 200..299

(* C1: a Close that parsed a response with a status in 200..299, the
   response handler (if any) returning no error, has issued exactly one
   delete call and no extend call. *)
C1_SuccessDeletesOnce ==
    \A c \in ConnIds :
        Closed(c) /\ SawSuccess(c) /\ ~conns[c].cHerr
            => conns[c].cDel = 1 /\ conns[c].cExt = 0

C1_Witness ==
    \E c \in ConnIds :
        /\ Closed(c) /\ SawSuccess(c) /\ ~conns[c].cHerr
        /\ conns[c].cDel = 1 /\ conns[c].cRet = "nil"
        /\ messages[conns[c].id].state = "deleted"

(* C2: on one stream at most one Close call ever issues a delete call or
   extend calls. *)
C2_OneDecision == \A c \in ConnIds : conns[c].decisions <= 1

(* C3: while a stream is open, its renewal was not canceled by the consumer
   and no request to the queue failed to reach it, the lease of its message
   has not expired. *)
C3_LeaseKeptAlive ==
    \A c \in ConnIds :
        /\ conns[c].live /\ conns[c].cRet = "none"
        /\ ~conns[c].canceled /\ ~conns[c].initErr
        /\ conns[c].extendErr # "net"
        /\ messages[conns[c].id].state = "present"
        => messages[conns[c].id].vt >= now

(* The stream was accepted and no Close call on it has returned. *)
Open(c) == conns[c].live /\ conns[c].cRet \in {"none", "running"}

SameMessage(c, d) == c # d /\ Open(c) /\ Open(d) /\ conns[c].id = conns[d].id

(* C4, as claimed: while the lease deadline of a message is in the future,
   at most one open stream is bound to it. *)
C4_OneStreamPerLease ==
    \A c, d \in ConnIds :
        SameMessage(c, d) => ~(messages[conns[c].id].vt > now)

(* C4, amended: of the open streams bound to one message at most one holds
   a lease deadline that is in the future. *)
C4_OneLeaseHolder ==
    \A c, d \in ConnIds :
        SameMessage(c, d) => ~(conns[c].vt > now /\ conns[d].vt > now)

C4_Witness ==
    \E c, d \in ConnIds :
        /\ SameMessage(c, d)
        /\ conns[c].vt < now /\ conns[d].vt > now
        /\ messages[conns[c].id].vt = conns[d].vt

(* C5: a Close on a stream no byte was ever written to returns nil and has
   issued no delete and no extend call; the step in which it returns leaves
   the queue and the stream's lease deadline as they were. *)
C5_NoResponseNoAction ==
    /\ [](\A c \in ConnIds :
            Closed(c) /\ ~conns[c].written
                => /\ conns[c].cRet = "nil"
                   /\ conns[c].cDel = 0 /\ conns[c].cExt = 0)
    /\ [][\A c \in ConnIds :
            /\ ~conns[c].written /\ ~conns'[c].written
            /\ ~Closed(c) /\ Closed(c)'
            => /\ messages' = messages
               /\ conns'[c].vt = conns[c].vt]_vars

C5_Witness ==
    \E c \in ConnIds :
        /\ Closed(c) /\ ~conns[c].written /\ conns[c].cSaw = "empty"
        /\ messages[conns[c].id].state = "present"

(* C6, as claimed: when a Close that parsed a non-2xx response with a
   numeric Retry-After of N returns, the stream's lease deadline is at least
   N after the current time, and Close has issued at least one extend call. *)
C6_RetryAfterReached ==
    [][\A c \in ConnIds :
        conns[c].pc = "close_ra" /\ conns'[c].pc = "idle"
            => /\ conns'[c].vt - now' >= conns[c].seconds
               /\ conns'[c].cExt >= 1]_vars

(* C6, amended: when such a Close returns and none of its extend calls
   failed, the stream's lease deadline is at least N after the current time
   (with no extend call at all when the lease already reached that far). *)
C6_RetryAfterReachedUnlessFailed ==
    [][\A c \in ConnIds :
        conns[c].pc = "close_ra" /\ conns'[c].pc = "idle" /\ ~conns'[c].cExtFail
            => conns'[c].vt - now' >= conns[c].seconds]_vars

C6_Witness ==
    \E c \in ConnIds :
        /\ Closed(c) /\ SawFailure(c) /\ conns[c].cRA = 2
        /\ conns[c].cExt >= 1 /\ ~conns[c].cExtFail
        /\ conns[c].vt - now >= 2

(* C7, as claimed: a Close that parsed a non-2xx response with no
   Retry-After, or one that is no integer, has issued no delete and no
   extend call and returns nil. *)
C7_NoRetryAfterNoAction ==
    \A c \in ConnIds :
        Closed(c) /\ SawFailure(c) /\ conns[c].cRA < 0
            => conns[c].cDel = 0 /\ conns[c].cExt = 0 /\ conns[c].cRet = "nil"

(* C7, amended: the same, when the response handler (if any) returned no
   error. *)
C7_NoRetryAfterNoActionUnlessHandlerFails ==
    \A c \in ConnIds :
        Closed(c) /\ SawFailure(c) /\ conns[c].cRA < 0 /\ ~conns[c].cHerr
            => conns[c].cDel = 0 /\ conns[c].cExt = 0 /\ conns[c].cRet = "nil"

C7_Witness ==
    \E c \in ConnIds :
        /\ Closed(c) /\ SawFailure(c) /\ conns[c].cRA = -1 /\ ~conns[c].cHerr
        /\ conns[c].respHandler
        /\ conns[c].cRet = "nil"

(* C8: a Close whose response handler returned an error returns an error
   and has issued no delete and no extend call, whatever the status. *)
C8_HandlerErrorAborts ==
    \A c \in ConnIds :
        Closed(c) /\ conns[c].cHerr
            => conns[c].cRet = "obsErr" /\ conns[c].cDel = 0 /\ conns[c].cExt = 0

C8_Witness ==
    \E c \in ConnIds :
        /\ Closed(c) /\ conns[c].cHerr /\ SawSuccess(c)
        /\ conns[c].cRet = "obsErr"
        /\ messages[conns[c].id].state = "present"

(* C9: a Close whose delete call failed returns an error, and has issued
   that one delete call and no extend call. *)
C9_DeleteFailureSurfaces ==
    \A c \in ConnIds :
        Closed(c) /\ conns[c].cDelFail
            => conns[c].cRet = "deleteErr" /\ conns[c].cDel = 1 /\ conns[c].cExt = 0

C9_Witness ==
    \E c \in ConnIds :
        /\ Closed(c) /\ conns[c].cDelFail /\ conns[c].cRet = "deleteErr"
        /\ messages[conns[c].id].state = "present"

(* C10: the step in which an extend call of the Retry-After loop fails is
   the return of Close, with nil, and leaves the stream's lease deadline as
   it was. *)
C10_ExtendFailureSwallowed ==
    [][\A c \in ConnIds :
        conns[c].pc = "close_ra" /\ conns'[c].cExtFail
            => /\ conns'[c].pc = "idle"
               /\ conns'[c].cRet = "nil"
               /\ conns'[c].vt = conns[c].vt]_vars

C10_Witness ==
    \E c \in ConnIds :
        /\ Closed(c) /\ conns[c].cExtFail /\ conns[c].cExt = 2
        /\ conns[c].cRet = "nil"

---------------------------------------------------------------------------
(* Properties of the renewal goroutine and of Conn.SetDeadline             *)

(* C11: once a Close or SetDeadline call on a stream is past
   c.extendWg.Wait(), the renewal goroutine of the stream has returned (and
   so issues no extend call and writes neither c.msg nor c.extendErr any
   more); no step of a returned goroutine changes the stream. *)
C11_RenewalStoppedBeforeDecision ==
    \A c \in ConnIds :
        conns[c].live /\ conns[c].canceled /\ conns[c].pc \notin {"close_wait", "sd_wait"}
            => conns[c].gpc \in {"none", "done"}

C11_Witness ==
    \E c \in ConnIds :
        /\ conns[c].live /\ conns[c].pc = "close_ra" /\ conns[c].cExt >= 1
        /\ conns[c].gpc = "done" /\ conns[c].renewals = 1

(* C12: on a stream whose renewal goroutine recorded an extend failure,
   Read and Write return an error and transfer nothing, and no step adds to
   the response buffer or takes from the request bytes. *)
C12_RenewalErrorSurfaces ==
    /\ [](\A c \in ConnIds :
            conns[c].live /\ conns[c].extendErr # "none"
                => /\ ReadResult(conns[c], ReqLen).err # "none"
                   /\ ReadResult(conns[c], ReqLen).n = 0
                   /\ \A b \in Payloads :
                         /\ WriteResult(conns[c], b).err # "none"
                         /\ WriteResult(conns[c], b).n = 0)
    /\ [][\A c \in ConnIds :
            conns[c].live /\ conns[c].extendErr # "none"
                => /\ conns'[c].reqBytes = conns[c].reqBytes
                   /\ Len(conns'[c].respBuffer) <= Len(conns[c].respBuffer)]_vars

C12_Witness ==
    \E c \in ConnIds :
        /\ Idle(c) /\ conns[c].extendErr = "api" /\ ~conns[c].canceled
        /\ Len(conns[c].reqBytes) > 0
        /\ Len(conns[c].respBuffer) > 0

(* C13: the step in which an extend call of SetDeadline fails leaves an
   error recorded on the stream, which Read and Write then report. *)
C13_ExplicitExtendFailureLatched ==
    [][\A c \in ConnIds :
        conns[c].pc = "sd_loop" /\ conns'[c].sRet = "extendErr"
            => /\ conns'[c].extendErr # "none"
               /\ ReadResult(conns'[c], ReqLen).err = "extend"
               /\ WriteResult(conns'[c], <<Body>>).err = "extend"]_vars

(* C14: the first extend call of the renewal goroutine of a stream made at
   t0 for a lease deadline L, when the goroutine was not canceled, is issued
   no earlier than t0 + 0.9 * (L - t0) and no later than L. *)
C14_FirstRenewalWindow ==
    [][\A c \in ConnIds :
        /\ conns[c].gpc = "calling" /\ conns'[c].gpc # "calling"
        /\ conns[c].renewals = 0 /\ ~conns[c].canceled
        => /\ 10 * (now - conns[c].born) >= 9 * (conns[c].vt - conns[c].born)
           /\ now <= conns[c].vt]_vars

C14_Witness ==
    \E c \in ConnIds :
        /\ conns[c].live /\ conns[c].renewals = 1 /\ ~conns[c].canceled
        /\ conns[c].gpc = "done"
        /\ 10 * (now - conns[c].born) = 9 * (conns[c].vt - conns[c].born)

(* C15: a SetDeadline call with the zero time or a time that is not in the
   future returns nil from c.extendWg.Wait() on, with the renewal goroutine
   stopped, no extend call, and the lease deadline as it was. *)
C15_UnsetOrPastDeadlineOnlyCancels ==
    [][\A c \in ConnIds :
        /\ conns[c].pc = "sd_wait" /\ conns'[c].pc # "sd_wait"
        /\ conns[c].target = 0 \/ conns[c].target <= now
        => /\ conns'[c].pc = "idle" /\ conns'[c].sRet = "nil"
           /\ conns'[c].canceled /\ conns'[c].gpc \in {"none", "done"}
           /\ conns'[c].vt = conns[c].vt
           /\ messages' = messages]_vars

C15_Witness ==
    \E c \in ConnIds :
        /\ Idle(c) /\ conns[c].sRet = "nil" /\ conns[c].gpc = "done"
        /\ conns[c].canceled /\ conns[c].extendErr = "none"
        /\ conns[c].vt = conns[c].born + LeaseLen
        /\ now > 1

(* A turn of the loop of SetDeadline on c issues an extend call in this
   step. *)
SetDeadlineExtends(c) ==
    /\ conns[c].pc = "sd_loop"
    /\ conns'[c].attempts = conns[c].attempts + 1 \/ conns'[c].sRet = "extendErr"

(* SetDeadline on c returns in this step of its loop. *)
SetDeadlineLoopReturns(c) == conns[c].pc = "sd_loop" /\ conns'[c].pc = "idle"

(* C16, as claimed: the loop of SetDeadline for a future time T issues an
   extend call only while the lease deadline is before T, at most 10 in all;
   it returns nil when no extend call failed; and when it returns after
   fewer than 10 successful extend calls the lease deadline is at or after
   T. *)
C16_DeadlineLoop ==
    [][\A c \in ConnIds :
        /\ SetDeadlineExtends(c)
              => conns[c].vt < conns[c].target /\ conns[c].attempts < MaxAttempts
        /\ SetDeadlineLoopReturns(c) /\ ~SetDeadlineExtends(c)
              => conns'[c].sRet = "nil"
        /\ SetDeadlineLoopReturns(c) /\ conns[c].attempts < MaxAttempts
              => conns'[c].vt >= conns[c].target]_vars

(* C16, amended: the same, the last part for a SetDeadline that returns
   nil. *)
C16_DeadlineLoopUnlessFailed ==
    [][\A c \in ConnIds :
        /\ SetDeadlineExtends(c)
              => conns[c].vt < conns[c].target /\ conns[c].attempts < MaxAttempts
        /\ SetDeadlineLoopReturns(c) /\ ~SetDeadlineExtends(c)
              => conns'[c].sRet = "nil"
        /\ SetDeadlineLoopReturns(c) /\ conns'[c].sRet = "nil"
                                     /\ conns[c].attempts < MaxAttempts
              => conns'[c].vt >= conns[c].target]_vars

C16_Witness ==
    \E c \in ConnIds :
        /\ Idle(c) /\ conns[c].sRet = "nil"
        /\ conns[c].renewals = 0 /\ conns[c].cRet = "none"
        /\ conns[c].vt = conns[c].born + 2 * LeaseLen
        /\ conns[c].vt >= 15

---------------------------------------------------------------------------
(* Properties of Listener                                                  *)

(* The number of entries of polled that l.accept has popped *)
Taken == Len(polled) - Len(acceptedMessages)

(* The ids of the popped entries of polled from the i-th on that were not
   discarded, in the order of polled *)
RECURSIVE Kept(_)
Kept(i) ==
    IF i > Taken THEN <<>>
    ELSE (IF i \in discards THEN <<>> ELSE <<polled[i]>>) \o Kept(i + 1)

(* C17: the streams Accept returned, in the order it returned them, are for
   the messages the polls returned, in the order they returned them, less
   the discarded ones; the buffer holds the rest in that order. *)
C17_PollOrderKept ==
    /\ [c \in 1..nconns |-> conns[c].id] = Kept(1)
    /\ [i \in 1..Len(acceptedMessages) |-> acceptedMessages[i].id]
          = SubSeq(polled, Taken + 1, Len(polled))

C17_Witness ==
    /\ nconns = 2 /\ polled = <<2, 1>> /\ discards = {}
    /\ conns[1].id = 2 /\ conns[2].id = 1
    /\ conns[1].vt = conns[2].vt

(* C18: at most one caller of Accept is inside l.accept at a time, and
   every message a poll returned is in one place: handed out in one stream,
   discarded, or still in the buffer. *)
C18_AcceptExclusive ==
    /\ Cardinality({ a \in Callers : apc[a] = "locked" }) <= 1
    /\ Len(polled) = nconns + Cardinality(discards) + Len(acceptedMessages)
    /\ \A c, d \in 1..nconns :
          c # d /\ conns[c].id = conns[d].id => conns[c].vt # conns[d].vt

C18_Witness ==
    /\ acceptRet[1] = "conn" /\ acceptRet[2] = "conn"
    /\ nconns = 2 /\ Len(polled) = 2
    /\ conns[1].id # conns[2].id
    /\ conns[1].born = conns[2].born

(* C19: a stream Accept returns is for a message whose lease deadline is
   after the time of the hand-out. *)
C19_NoExpiredStream ==
    \A c \in ConnIds : conns[c].live => conns[c].vt > conns[c].born

C19_Witness ==
    /\ discards # {} /\ nconns = 2
    /\ conns[2].born >= conns[1].born + LeaseLen
    /\ \E a \in Callers : acceptRet[a] = "conn" /\ apc[a] = "idle"

(* Listener.Close was called while a's Accept call waited for a message,
   and the call returns in this step *)
ReturnsAfterClose(a) == closeSeen[a] /\ apc[a] # "idle" /\ apc'[a] = "idle"

(* C20: an Accept call that waits for a message when Listener.Close is
   called returns, and what it returns is net.ErrClosed. *)
C20_CloseUnblocksAccept ==
    /\ [][\A a \in Callers :
            ReturnsAfterClose(a) => acceptRet'[a] = "closed"]_vars
    /\ \A a \in Callers : (closeSeen[a] /\ apc[a] # "idle") ~> (apc[a] = "idle")

C20_Witness ==
    \E a, b \in Callers :
        /\ a # b
        /\ closeSeen[a] /\ apc[a] = "idle" /\ acceptRet[a] = "closed"
        /\ closeSeen[b] /\ apc[b] = "idle" /\ acceptRet[b] = "closed"
        /\ baseCtx = "canceled" /\ ~baseCancel

---------------------------------------------------------------------------
(* Transport.RoundTrip *)

(* In the last RoundTrip the serializer failed / SendMessage returned no
   error / an APIError / another error *)
SerializerFailed == rt.calls > 0 /\ rt.ser # "none"
SendSucceeded == rt.calls > 0 /\ rt.serr = "none"
SendRefused == rt.calls > 0 /\ rt.serr = "api"
SendFailed == rt.calls > 0 /\ rt.serr \in {"net", "canceled"}

(* C21: after a RoundTrip whose send succeeded, the call returned no error
   and a response with status 202, no body, the queue name, and the id and
   the creation time of a message that is in the queue; the call added one
   message, and the content of that message is what the serializer
   returned. *)
C21_SendSuccess ==
    SendSucceeded =>
        /\ rt.err = "none" /\ rt.resp
        /\ rt.status = 202 /\ rt.body = "" /\ rt.queue
        /\ rt.added = 1
        /\ rt.id \in MsgIds
        /\ messages[rt.id].state = "present"
        /\ rt.created = RFC3339(messages[rt.id].created)
        /\ messages[rt.id].content = rt.content

(* C22, as stated: after a RoundTrip whose send returned an APIError with
   code C and message M, the call returned no error and a response with
   status C, the body M and the queue name, and it added no message. *)
C22_APIErrorResponse ==
    SendRefused =>
        /\ rt.err = "none" /\ rt.resp
        /\ rt.status = rt.apiCode /\ rt.body = rt.apiMessage /\ rt.queue
        /\ rt.added = 0

(* C22: after a RoundTrip whose send returned an APIError with code C and
   message M, the call returned no error and a response with status C and
   the queue name, and it added no message; the body of the response is M
   if the request was no HEAD request, and empty if it was one. *)
C22_APIErrorResponseUnlessHead ==
    SendRefused =>
        /\ rt.err = "none" /\ rt.resp
        /\ rt.status = rt.apiCode /\ rt.queue
        /\ rt.body = IF rt.method = "HEAD" THEN "" ELSE rt.apiMessage
        /\ rt.added = 0

C22_Witness ==
    SendRefused /\ rt.status = 401 /\ rt.body = "unauthorized" /\ rt.calls = 2

(* C23: a RoundTrip whose serializer fails, or whose send fails with an
   error that is no APIError, returns an error and no response; the call
   whose serializer fails issues no send call and leaves the queue as it
   was. *)
C23_FailureIsError ==
    /\ [](SerializerFailed \/ SendFailed => rt.err # "none" /\ ~rt.resp)
    /\ [][rt'.calls # rt.calls /\ rt'.ser # "none"
            => rt'.sends = rt.sends /\ messages' = messages]_vars

C23_Witness ==
    /\ rt.calls = 2 /\ rt.sends = 1
    /\ rt.ser = "tooLarge" /\ rt.err = "tooLarge"

---------------------------------------------------------------------------
(* BodyOnlySerializer *)

(* C24: the default serializer gives back, from what it serialized a
   request with the body p to, a request with the body p. *)
C24_RoundTrip ==
    codec.pc = "deserialized" /\ ~codec.noBase64 => codec.body = codec.p

C24_Witness ==
    /\ codec.pc = "deserialized" /\ ~codec.noBase64
    /\ codec.p = <<15, 9, 6>> /\ codec.content # codec.p

---------------------------------------------------------------------------
(* The renewal goroutine *)

(* The extend call of the renewal goroutine of c returns in this step, with
   an error / with the message *)
RenewalFails(c) ==
    conns[c].live /\ conns[c].gpc = "calling" /\ conns'[c].gpc = "done"
RenewalSucceeds(c) ==
    conns[c].live /\ conns[c].gpc = "calling" /\ conns'[c].gpc = "timer"

(* C27: when an extend call of the renewal goroutine fails and nobody has
   canceled the goroutine, the error is recorded on the stream, and the
   goroutine has stopped for good: it never waits for its timer or calls
   extend again.  When the call succeeds, the stream's lease deadline is the
   one the queue now holds for the message, and the timer is set to fire
   after 90% of the time left to that deadline (on the clock: at the first
   clock value that is not before it). *)
C27_RenewalFailureStops ==
    /\ [][\A c \in ConnIds :
            RenewalFails(c) /\ ~conns[c].canceled
                => conns'[c].extendErr \in {"api", "net"}]_vars
    /\ [][\A c \in ConnIds :
            conns[c].live /\ conns[c].gpc = "done" => conns'[c].gpc = "done"]_vars
    /\ [][\A c \in ConnIds :
            RenewalSucceeds(c)
                => LET left == conns'[c].vt - now
                       wait == conns'[c].timerAt - now
                   IN  /\ conns'[c].vt = messages'[conns[c].id].vt
                       /\ conns'[c].vt > conns[c].vt
                       /\ 10 * wait >= 9 * left
                       /\ 10 * (wait - 1) < 9 * left]_vars

C27_Witness ==
    \E c, d \in ConnIds :
        /\ conns[c].live /\ conns[c].gpc = "done" /\ conns[c].extendErr = "api"
        /\ conns[d].live /\ conns[d].gpc = "timer" /\ conns[d].renewals = 1
        /\ conns[d].vt > conns[d].born + LeaseLen

(* C28, as stated: once the renewal goroutine of a stream is canceled with no
   renewal error recorded, none is recorded later. *)
C28_CancelNeverLatches ==
    [][\A c \in ConnIds :
        conns[c].live /\ conns[c].canceled /\ conns[c].extendErr = "none"
            => conns'[c].extendErr = "none"]_vars

(* C28: the cancellation is never recorded as a renewal error, and a cancel
   that finds the goroutine waiting for its timer, or stopped, leaves the
   renewal error as it is for good, also when the timer fires after it.  The
   one error recorded after a cancel is the failure of an extend call that
   was in flight when the cancel came and that the queue had refused, or the
   network had failed, on its own. *)
C28_CancelNotLatched ==
    /\ [](\A c \in ConnIds : conns[c].extendErr \in {"none", "api", "net"})
    /\ [][\A c \in ConnIds :
            conns[c].live /\ conns[c].canceled /\ conns[c].gpc # "calling"
                => conns'[c].extendErr = conns[c].extendErr]_vars
    /\ [][\A c \in ConnIds :
            /\ conns[c].live /\ conns[c].canceled
            /\ conns[c].extendErr = "none" /\ conns'[c].extendErr # "none"
            => /\ conns[c].gpc = "calling" /\ ~conns[c].late
               /\ conns'[c].extendErr = "api"
                     => StubExtend(messages, conns[c].id, now).code # 200]_vars

C28_Witness ==
    \E c \in ConnIds :
        /\ conns[c].live /\ conns[c].canceled /\ conns[c].gpc = "done"
        /\ conns[c].renewals = 1 /\ conns[c].extendErr = "none"
        /\ conns[c].cRet # "none"

---------------------------------------------------------------------------
(* Listener.accept *)

(* C29: while a caller is in the polling loop of l.accept the buffer is
   empty, and a poll returns messages only to an empty buffer: every message
   of the polls before it has been popped. *)
C29_PollOnlyWhenEmpty ==
    /\ [](\A a \in Callers : apc[a] = "locked" => acceptedMessages = <<>>)
    /\ [][polled' # polled
            => acceptedMessages = <<>> /\ Taken = Len(polled)]_vars

C29_Witness ==
    /\ Len(polled) > 2 /\ discards # {}
    /\ Len(acceptedMessages) = 1

---------------------------------------------------------------------------
(* Conn.Read *)

(* The request of stream c as Conn.init rendered it *)
Rendered(c) == Render(RequestBody(JsonString(messages[conns[c].id].content)))

(* C30: on a stream whose request was decoded and that has no renewal error,
   what the Read calls have returned so far, in the order of the calls, and
   what is left to read make up the rendered request; a Read returns at most
   what its buffer holds and takes it from the front; and when nothing is
   left, Read returns the closed-stream error and no byte, whatever the
   buffer. *)
C30_ReadInOrder ==
    /\ [](\A c \in ConnIds :
            conns[c].live /\ ~conns[c].initErr /\ conns[c].extendErr = "none"
                => /\ conns[c].got \o conns[c].reqBytes = Rendered(c)
                   /\ conns[c].reqBytes = <<>>
                        => \A n \in 1..ReqLen :
                              ReadResult(conns[c], n) = [err |-> "closed", n |-> 0])
    /\ [][\A c \in ConnIds :
            conns[c].live /\ conns'[c].got # conns[c].got
                => /\ Len(conns'[c].got) - Len(conns[c].got) <= ReqLen
                   /\ conns[c].reqBytes # <<>>]_vars

C30_Witness ==
    \E c \in ConnIds :
        /\ Handled(c) /\ conns[c].extendErr = "none"
        /\ Len(conns[c].got) > ReqLen

---------------------------------------------------------------------------
(* The server loop *)

(* The body of the request the handler got from stream c *)
HandledBody(c) == Tail(conns[c].got)

(* Every message added to the queue is handed to the handler, as long as the
   listener has a stream left for it *)
EveryMessageHandled ==
    \A id \in MsgIds :
        messages[id].state # "unsent"
            ~> \/ \E c \in ConnIds : Handled(c) /\ conns[c].id = id
               \/ nconns >= serveLimit /\ \A c \in ConnIds : conns[c].id # id

(* C26 as stated: every message added is eventually handed to the handler,
   and the body of the request equals the content of the message. *)
C26_BodyIsContent ==
    /\ EveryMessageHandled
    /\ [](\A c \in ConnIds :
            Handled(c) => HandledBody(c) = messages[conns[c].id].content)

(* C26: every message added is eventually handed to the handler; the body
   of the request is the content of the message when the content is no
   base64 text, and what the content decodes to when it is one. *)
C26_BodyIsDecodedContent ==
    /\ EveryMessageHandled
    /\ [](\A c \in ConnIds :
            Handled(c) =>
                /\ messages[conns[c].id].content = Req => HandledBody(c) = Req
                /\ messages[conns[c].id].content = Text => HandledBody(c) = <<2, 9>>)

C26_Witness ==
    /\ \A id \in MsgIds : \E c \in ConnIds :
            Handled(c) /\ conns[c].id = id /\ conns[c].written
    /\ \E c \in ConnIds : Handled(c) /\ messages[conns[c].id].content = Text
    /\ \E c \in ConnIds : Handled(c) /\ messages[conns[c].id].content = Req

---------------------------------------------------------------------------
(* Redelivery *)

(* A stream for the message of c, accepted after c and after the deadline
   of the lease that c held *)
DeliveredAgain(c) ==
    \E d \in ConnIds :
        /\ d > c /\ conns[d].live /\ conns[d].id = conns[c].id
        /\ conns[d].born > conns[c].vt

(* C25: when Close has returned on a stream and the message is still in the
   queue, the message is delivered again by a later Accept, after the
   deadline of the lease, unless its lease runs
   beyond the end of the clock or the stream is the last one the listener
   accepts. *)
C25_Redelivered ==
    \A c \in ConnIds :
        (Closed(c) /\ messages[conns[c].id].state = "present")
            ~> \/ DeliveredAgain(c)
               \/ messages[conns[c].id].vt >= MaxTime
               \/ c >= serveLimit

C25_Witness ==
    \E c \in ConnIds :
        /\ Closed(c) /\ conns[c].cDel = 0
        /\ messages[conns[c].id].state = "present"
        /\ DeliveredAgain(c)

---------------------------------------------------------------------------
(* Decode failure *)

(* C31: on a stream whose payload did not decode, Read returns the decode
   error and no byte for every buffer, and no step of the stream, of its
   user or of the clock takes the error away or gives the stream request
   bytes: the next Read finds the same. *)
C31_DecodeErrorLatched ==
    /\ [](\A c \in ConnIds :
            conns[c].live /\ conns[c].initErr
                => \A n \in 1..ReqLen :
                      ReadResult(conns[c], n) = [err |-> "init", n |-> 0])
    /\ [][\A c \in ConnIds :
            conns[c].live /\ conns[c].initErr
                => /\ conns'[c].initErr
                   /\ conns'[c].got = <<>>
                   /\ conns'[c].reqBytes = <<>>]_vars

C31_Witness ==
    \E c \in ConnIds :
        /\ Idle(c) /\ conns[c].initErr /\ messages[conns[c].id].content = Bad
        /\ now > conns[c].born
        /\ Len(conns[c].respBuffer) > 0

---------------------------------------------------------------------------
(* Close and the response *)

(* The bytes written are no response: they do not start with a status line,
   or the header has no end *)
Malformed(buf) ==
    /\ Len(buf) > 0
    /\ buf[1][1] # "status" \/ \A i \in 1..Len(buf) : buf[i] # Eoh

(* The step in which Close on c goes from the wait for the renewal
   goroutine to its return or to the Retry-After loop *)
CloseDecides(c) ==
    (CloseCall(c) \/ CloseDecide(c)) /\ conns'[c].pc # "close_wait"

(* C32: a Close that finds bytes that are no response returns the parse
   error; it has not called the response observer, DeleteMessage or
   ExtendVisibilityTimeout, and the queue is as it was. *)
C32_ParseFailure ==
    [][\A c \in ConnIds :
        CloseDecides(c) /\ Malformed(conns[c].respBuffer)
            => /\ conns'[c].pc = "idle" /\ conns'[c].cRet = "parseErr"
               /\ conns'[c].cObs = 0 /\ ~conns'[c].cHerr
               /\ conns'[c].cDel = 0 /\ conns'[c].cExt = 0
               /\ messages' = messages]_vars

C32_Witness ==
    \E c \in ConnIds :
        /\ Closed(c) /\ conns[c].cRet = "parseErr" /\ conns[c].respHandler
        /\ conns[c].cSaw = "bad"
        /\ messages[conns[c].id].state = "present"

(* C33: in a Close call the renewal goroutine has returned when Close
   decides; the observer is called at most once, exactly when there is an
   observer and a response was parsed, whatever its status, and so never
   when nothing was written or nothing parsed; and a delete or extend call
   of Close is only issued after a parsed response whose observer, if any,
   returned no error. *)
C33_CloseOrder ==
    /\ [](\A c \in ConnIds :
            conns[c].live /\ conns[c].cRet # "none"
                => /\ conns[c].cObs <= 1
                   /\ conns[c].cObs = 1
                        <=> conns[c].respHandler /\ conns[c].cSaw = "resp"
                   /\ conns[c].cHerr
                        => conns[c].cObs = 1 /\ conns[c].cDel = 0 /\ conns[c].cExt = 0
                   /\ conns[c].cDel > 0 \/ conns[c].cExt > 0
                        => conns[c].cSaw = "resp" /\ ~conns[c].cHerr)
    /\ [][\A c \in ConnIds :
            /\ CloseDecides(c) => conns[c].gpc \in {"none", "done"}
            /\ conns[c].live /\ conns[c].pc = "close_ra"
                => conns'[c].cObs = conns[c].cObs]_vars

C33_Witness ==
    \E c \in ConnIds :
        /\ Closed(c) /\ conns[c].respHandler /\ conns[c].cObs = 1
        /\ SawFailure(c) /\ conns[c].cExt >= 1 /\ ~conns[c].cHerr
        /\ conns[c].gpc = "done"

---------------------------------------------------------------------------
(* The extend operation of the queue *)

(* The lease of message id was given and its deadline has passed at time t *)
LeaseExpired(msgs, id, t) == msgs[id].vt > 0 /\ msgs[id].vt <= t

(* C34: at every moment, an extend call for a message that is absent is
   answered 404, one for a message whose lease has expired is answered 409,
   and any other succeeds and returns a later deadline than the message
   had. *)
C34_ExtendContract ==
    \A id \in MsgIds :
        LET r == StubExtend(messages, id, now) IN
        /\ messages[id].state # "present" => r.code = 404
        /\ messages[id].state = "present" /\ LeaseExpired(messages, id, now)
              => r.code = 409
        /\ messages[id].state = "present" /\ ~LeaseExpired(messages, id, now)
              => r.code = 200 /\ r.vt > messages[id].vt

---------------------------------------------------------------------------
(* Renewal after SetDeadline *)

(* A SetDeadline call on c is past c.extendWg.Wait(), or has returned *)
DeadlineWasSet(c) ==
    conns[c].live /\ conns[c].sRet # "none" /\ conns[c].pc # "sd_wait"

(* C35: once a SetDeadline call on a stream, with any deadline, is past its
   wait, the renewal goroutine of the stream has returned and takes no
   step any more, and the lease of the message of the stream is extended
   only by a turn of the loop of SetDeadline or of the Retry-After loop of
   Close. *)
C35_RenewalNeverResumed ==
    /\ [](\A c \in ConnIds :
            DeadlineWasSet(c) => conns[c].gpc \in {"none", "done"})
    /\ [][\A c \in ConnIds :
            DeadlineWasSet(c)
                => /\ ~RenewFire(c) /\ ~RenewExtend(c)
                   /\ conns'[c].gpc = conns[c].gpc
                   /\ conns'[c].renewals = conns[c].renewals
                   /\ messages'[conns[c].id].vt # messages[conns[c].id].vt
                        => SetDeadlineLoop(c) \/ CloseRetryAfter(c)]_vars

C35_Witness ==
    \E c \in ConnIds :
        /\ Idle(c) /\ conns[c].sRet = "nil" /\ conns[c].target = 0
        /\ conns[c].gpc = "done" /\ conns[c].renewals = 0
        /\ now >= conns[c].timerAt /\ ~Closed(c)

---------------------------------------------------------------------------
(* Accept after Listener.Close *)

(* C36: once Listener.Close has returned, no Accept call constructs a
   stream, and every Accept call that returns returns net.ErrClosed. *)
C36_NoStreamAfterClose ==
    [][lClosed =>
          /\ nconns' = nconns
          /\ \A a \in Callers :
                apc[a] # "idle" /\ apc'[a] = "idle" => acceptRet'[a] = "closed"]_vars

---------------------------------------------------------------------------
(* The end of Close *)

(* A turn of the Retry-After loop of Close on c after which the loop goes
   on *)
RetryAfterTurn(c) ==
    conns[c].pc = "close_ra" /\ conns'[c].pc = "close_ra" /\ CloseRetryAfter(c)

(* C37: every Close call returns; every turn of the Retry-After loop that
   does not end the loop has moved the lease deadline the stream holds
   forward by a lease, so that the loop ends after finitely many extend
   calls. *)
C37_CloseTerminates ==
    /\ \A c \in ConnIds :
          (conns[c].live /\ conns[c].cRet = "running")
              ~> (conns[c].pc = "idle" /\ Closed(c))
    /\ [][\A c \in ConnIds :
            RetryAfterTurn(c)
                => /\ conns'[c].vt >= conns[c].vt + LeaseLen
                   /\ conns'[c].cExt = conns[c].cExt + 1]_vars

C37_Witness ==
    \E c \in ConnIds :
        /\ Closed(c) /\ conns[c].cRA = 12 /\ conns[c].cExt = 2
        /\ conns[c].cExtFail

---------------------------------------------------------------------------
(* Decode failure and the renewal goroutine *)

(* C38: a stream whose payload did not decode has no renewal goroutine: no
   timer, no extend call of a goroutine, at any time; only the loops of Close
   and SetDeadline change the deadline of its message; and a Close call on
   it never waits: the step of the call is the step in which Close decides. *)
C38_NoRenewalAfterDecodeFailure ==
    /\ [](\A c \in ConnIds :
            conns[c].live /\ conns[c].initErr
                => /\ conns[c].gpc = "none" /\ conns[c].renewals = 0
                   /\ conns[c].pc # "close_wait")
    /\ [][\A c \in ConnIds :
            conns[c].live /\ conns[c].initErr
                => /\ ~RenewFire(c) /\ ~RenewExtend(c)
                   /\ messages'[conns[c].id].vt # messages[conns[c].id].vt
                        => CloseRetryAfter(c) \/ SetDeadlineLoop(c)
                   /\ CloseCall(c) => CloseDecides(c)]_vars

C38_Witness ==
    \E c \in ConnIds :
        /\ Closed(c) /\ conns[c].initErr /\ conns[c].cSaw = "empty"
        /\ now > conns[c].born + LeaseLen
        /\ messages[conns[c].id].vt = conns[c].born + LeaseLen


=============================================================================
